---- MODULE Spec2Model ----
(***************************************************************************)
(* Construction time tracking API (src/main.py, src/schemas.py).           *)
(*                                                                         *)
(* The document store holds three collections (project, task, timeentry).  *)
(* Request handlers run on a pool of worker threads; every access to the   *)
(* store (find_one, find, insert, update_one) and every reading of the     *)
(* clock is one atomic step, and a handler that makes several of them is   *)
(* several steps, so that requests interleave between them.  The server    *)
(* runs with one worker thread (requests one after another) or with        *)
(* NWorkers of them; Init chooses.                                         *)
(*                                                                         *)
(* The step that answers a request puts the request and its response in    *)
(* out; the response is delivered to the client (Deliver) before anything  *)
(* else happens.                                                           *)
(*                                                                         *)
(* An optional value (Python None or a value) is a sequence of length 0    *)
(* or 1.  Identifier strings are 2-character hexadecimal strings (the      *)
(* 24-character strings of bson, shortened); instants are clock ticks,     *)
(* TicksPerSec to the second.                                              *)
(***************************************************************************)
EXTENDS Integers, Sequences, FiniteSets, TLC

VARIABLES
    clock,      \* the wall clock read by datetime.now(timezone.utc), in ticks
    project,    \* db["project"]: set of documents
    task,       \* db["task"]
    timeentry,  \* db["timeentry"]
    nextOid,    \* the next ObjectId the driver generates
    pool,       \* the worker threads the server runs requests on
    pc,         \* per worker: position inside the handler it runs
    loc,        \* per worker: the handler's payload and local variables
    out,        \* the request answered by the step just taken, if any:
                \* its handler, payload and response
    nWrites,    \* per ObjectId: number of update_one calls applied to it
    nSucc,      \* per ObjectId: number of stop calls that returned 200
    reported    \* per task_id string: the largest total_seconds a logged
                \* report has returned for it

vars == <<clock, project, task, timeentry, nextOid, pool, pc, loc, out,
          nWrites, nSucc, reported>>

-----------------------------------------------------------------------------
(* Bounds of the model *)

MaxClock == 2
TicksPerSec == 2
MaxProjects == 1
MaxTasks == 1
MaxEntries == 2
MaxConcEntries == 1
NWorkers == 2
MaxLimit == 2

Workers == 1..NWorkers

\* the number of time entries explored: MaxEntries with a single worker
\* thread, MaxConcEntries with concurrent ones
EntryCap == IF Cardinality(pool) = 1 THEN MaxEntries ELSE MaxConcEntries

-----------------------------------------------------------------------------
(* Optional values *)

None == <<>>
Some(v) == <<v>>
Val(o) == o[1]

Min(a, b) == IF a <= b THEN a ELSE b

-----------------------------------------------------------------------------
(* Identifiers: bson.ObjectId and its string form *)

HexLower == <<"aa", "ab", "ac", "ad", "ae", "af", "ba", "bb", "bc", "bd">>
HexUpper == <<"AA", "AB", "AC", "AD", "AE", "AF", "BA", "BB", "BC", "BD">>

Oids == 1..Len(HexLower)

\* str(oid): the lower-case hexadecimal form
Str(oid) == HexLower[oid]

\* ObjectId(id_str): hexadecimal digits of either case are accepted; anything
\* else raises InvalidId (None here)
ObjectId(id_str) ==
    IF \E i \in Oids : HexLower[i] = id_str
    THEN Some(CHOOSE i \in Oids : HexLower[i] = id_str)
    ELSE IF \E i \in Oids : HexUpper[i] = id_str
    THEN Some(CHOOSE i \in Oids : HexUpper[i] = id_str)
    ELSE None

HTTPException(status_code, detail) ==
    [status |-> status_code, detail |-> detail, body |-> None]

Ok(body) == [status |-> 200, detail |-> "", body |-> Some(body)]

\* to_object_id: the ObjectId, or the HTTPException(400) it raises
to_object_id(id_str) ==
    IF ObjectId(id_str) = None
    THEN [oid |-> None, exc |-> Some(HTTPException(400, "Invalid id"))]
    ELSE [oid |-> ObjectId(id_str), exc |-> None]

-----------------------------------------------------------------------------
(* The document store gateway *)

\* collection.find_one({"_id": oid})
find_one(coll, oid) ==
    IF \E d \in coll : d._id = oid
    THEN Some(CHOOSE d \in coll : d._id = oid)
    ELSE None

\* collection.find({field: value})
find(coll, field, value) == {d \in coll : d[field] = value}

\* d["id"] = str(d.pop("_id"))
Stringify(d) ==
    [f \in (DOMAIN d \ {"_id"}) \cup {"id"} |->
        IF f = "id" THEN Str(d._id) ELSE d[f]]

\* an argument or field that Python's "if x:" takes as present
Truthy(s) == s # None /\ s # Some("")


\* get_documents(collection, filter, limit): up to `limit` of the documents
\* that match, in no particular order; every possible result
get_documents(matched, limit) ==
    {S \in SUBSET matched : Cardinality(S) = Min(limit, Cardinality(matched))}

\* create_document(collection, data): the document as inserted
create_document(data, oid) == ("_id" :> oid) @@ data

-----------------------------------------------------------------------------
(* Schemas (src/schemas.py) *)

Project(name) == [name |-> name, description |-> None, client |-> None]

Task(project_id) ==
    [project_id |-> project_id, name |-> "t", description |-> None,
     status |-> "open"]

TimeEntry(task_id, user_id, start_time, end_time, duration_sec, note) ==
    [task_id |-> task_id, user_id |-> user_id, start_time |-> start_time,
     end_time |-> end_time, duration_sec |-> duration_sec, note |-> note,
     updated_at |-> None]

-----------------------------------------------------------------------------
(* Request payloads *)

Users == {None, Some("u1")}
Notes == {None}

\* the identifier strings a client may send where the documents of coll are
\* looked up: both hexadecimal forms of every stored identifier, a well-formed
\* identifier that no document has (the next to be generated), and a
\* malformed string
IdInputs(coll) ==
    {HexLower[d._id] : d \in coll} \cup {HexUpper[d._id] : d \in coll} \cup
    {HexLower[i] : i \in {nextOid} \cap Oids} \cup {"zz"}

\* an optional query parameter naming a document of coll
QueryInputs(coll) ==
    {None, Some("")} \cup
    {Some(HexLower[d._id]) : d \in coll} \cup
    {Some(HexUpper[d._id]) : d \in coll}

Limits == 1..MaxLimit

-----------------------------------------------------------------------------
(* Initial state *)

NoLoc == [arg |-> None]

\* the strings a report may be asked for
ReportKeys ==
    {HexLower[o] : o \in Oids} \cup {HexUpper[o] : o \in Oids} \cup {"zz"}

Init ==
    /\ clock = 0
    /\ project = {}
    /\ task = {}
    /\ timeentry = {}
    /\ nextOid = 1
    /\ pool \in {{1}, Workers}
    /\ pc = [w \in Workers |-> "idle"]
    /\ loc = [w \in Workers |-> NoLoc]
    /\ out = None
    /\ nWrites = [o \in Oids |-> 0]
    /\ nSucc = [o \in Oids |-> 0]
    /\ reported = [s \in ReportKeys |-> 0]

\* the clock advances
Tick ==
    /\ out = None
    /\ clock < MaxClock
    /\ clock' = clock + 1
    /\ out' = None
    /\ UNCHANGED <<project, task, timeentry, nextOid, pool, reported, pc, loc, nWrites,
                   nSucc>>

\* worker w returns response r (or raises the HTTPException r) for the
\* request of handler name with the given payload
Return(w, name, payload, r) ==
    /\ pc' = [pc EXCEPT ![w] = "idle"]
    /\ loc' = [loc EXCEPT ![w] = NoLoc]
    /\ out' = Some([op |-> name, arg |-> payload, resp |-> r])

\* worker w goes on to the next statement of its handler
Goto(w, label, locals) ==
    /\ pc' = [pc EXCEPT ![w] = label]
    /\ loc' = [loc EXCEPT ![w] = locals]
    /\ out' = None

\* the response of the step just taken is delivered to its client
Deliver ==
    /\ out # None
    /\ out' = None
    /\ UNCHANGED <<clock, project, task, timeentry, nextOid, pool, reported, pc, loc,
                   nWrites, nSucc>>

InFlight(label) == Cardinality({w \in Workers : pc[w] = label})

-----------------------------------------------------------------------------
(* Projects *)

create_project(w) ==
    /\ pc[w] = "idle"
    /\ out = None
    /\ Cardinality(project) < MaxProjects
    /\ nextOid \in Oids
    /\ project' = project \cup {create_document(Project("p"), nextOid)}
    /\ nextOid' = nextOid + 1
    /\ Return(w, "create_project", [name |-> "p"], Ok([id |-> Str(nextOid)]))
    /\ UNCHANGED <<clock, task, timeentry, pool, reported, nWrites, nSucc>>

-----------------------------------------------------------------------------
(* Tasks *)

\* the project lookup left out
create_task_check_no_lookup(project_id) == to_object_id(project_id).exc

\* create_task, lines 90-92: the exception raised, if any
create_task_check(project_id) ==
    LET r == to_object_id(project_id) IN
    IF r.exc # None THEN r.exc
    ELSE IF find_one(project, Val(r.oid)) = None
    THEN Some(HTTPException(404, "Project not found"))
    ELSE None

\* the task inserted before the project is looked up
create_task_find_insert_first(w) ==
    /\ pc[w] = "idle"
    /\ out = None
    /\ Cardinality(task) + InFlight("create_task_insert") < MaxTasks
    /\ nextOid \in Oids
    /\ \E project_id \in IdInputs(project) :
        LET payload == [project_id |-> project_id] IN
        IF create_task_check(project_id) # None
        THEN /\ task' = task \cup {create_document(Task(project_id), nextOid)}
             /\ nextOid' = nextOid + 1
             /\ Return(w, "create_task", payload,
                       Val(create_task_check(project_id)))
        ELSE /\ UNCHANGED <<task, nextOid>>
             /\ Goto(w, "create_task_insert", [arg |-> payload])
    /\ UNCHANGED <<clock, project, timeentry, pool, reported, nWrites, nSucc>>

\* lines 87-92
create_task_find(w) ==
    /\ pc[w] = "idle"
    /\ out = None
    /\ Cardinality(task) + InFlight("create_task_insert") < MaxTasks
    /\ \E project_id \in IdInputs(project) :
        LET payload == [project_id |-> project_id] IN
        IF create_task_check(project_id) # None
        THEN Return(w, "create_task", payload,
                    Val(create_task_check(project_id)))
        ELSE Goto(w, "create_task_insert", [arg |-> payload])
    /\ UNCHANGED <<clock, project, task, timeentry, nextOid, pool, reported, nWrites, nSucc>>

create_task_insert(w) ==
    /\ pc[w] = "create_task_insert"
    /\ out = None
    /\ nextOid \in Oids
    /\ task' = task \cup {create_document(Task(loc[w].arg.project_id), nextOid)}
    /\ nextOid' = nextOid + 1
    /\ Return(w, "create_task", loc[w].arg, Ok([id |-> Str(nextOid)]))
    /\ UNCHANGED <<clock, project, timeentry, pool, reported, nWrites, nSucc>>

\* the filter on project_id left out
list_tasks_filt_none(project_id) == None

\* lines 99-101: the filter on project_id (None: no filter)
list_tasks_filt(project_id) ==
    IF Truthy(project_id) THEN Some(Val(project_id)) ELSE None

\* the tasks that a filter on project_id selects
MatchingTasks(filt) ==
    IF filt = None THEN task ELSE find(task, "project_id", Val(filt))

\* lines 97-105
list_tasks(w) ==
    /\ pc[w] = "idle"
    /\ out = None
    /\ \E project_id \in {None, Some("")}
                           \cup {Some(s) : s \in IdInputs(project)},
          limit \in Limits :
        \E docs \in get_documents(MatchingTasks(list_tasks_filt(project_id)),
                                  limit) :
            Return(w, "list_tasks",
                   [project_id |-> project_id, limit |-> limit],
                   Ok({Stringify(d) : d \in docs}))
    /\ UNCHANGED <<clock, project, task, timeentry, nextOid, pool, reported, nWrites, nSucc>>

-----------------------------------------------------------------------------
(* Time entries: start *)

\* the task lookup left out
start_timer_check_no_lookup(task_id) == to_object_id(task_id).exc

\* start_timer, lines 118-120: the exception raised, if any
start_timer_check(task_id) ==
    LET r == to_object_id(task_id) IN
    IF r.exc # None THEN r.exc
    ELSE IF find_one(task, Val(r.oid)) = None
    THEN Some(HTTPException(404, "Task not found"))
    ELSE None

\* an entry built as already stopped
start_timer_entry_stopped(payload, now) ==
    TimeEntry(payload.task_id, payload.user_id, now, Some(now), Some(0),
              payload.note)

\* lines 122-129: the entry a start request builds at instant now
start_timer_entry(payload, now) ==
    TimeEntry(payload.task_id, payload.user_id, now, None, None, payload.note)

start_timer_find(w) ==
    /\ pc[w] = "idle"
    /\ out = None
    /\ Cardinality(timeentry) + InFlight("start_timer_now")
         + InFlight("start_timer_insert") < EntryCap
    /\ \E task_id \in IdInputs(task), user_id \in Users, note \in Notes :
        LET payload == [task_id |-> task_id, user_id |-> user_id,
                        note |-> note] IN
        IF start_timer_check(task_id) # None
        THEN Return(w, "start_timer", payload,
                    Val(start_timer_check(task_id)))
        ELSE Goto(w, "start_timer_now", [arg |-> payload])
    /\ UNCHANGED <<clock, project, task, timeentry, nextOid, pool, reported, nWrites, nSucc>>

start_timer_now(w) ==
    /\ pc[w] = "start_timer_now"
    /\ out = None
    /\ Goto(w, "start_timer_insert",
            [arg |-> loc[w].arg,
             entry |-> start_timer_entry(loc[w].arg, clock)])
    /\ UNCHANGED <<clock, project, task, timeentry, nextOid, pool, reported, nWrites, nSucc>>

start_timer_insert(w) ==
    /\ pc[w] = "start_timer_insert"
    /\ out = None
    /\ nextOid \in Oids
    /\ timeentry' = timeentry \cup {create_document(loc[w].entry, nextOid)}
    /\ nextOid' = nextOid + 1
    /\ Return(w, "start_timer", loc[w].arg, Ok([id |-> Str(nextOid)]))
    /\ UNCHANGED <<clock, project, task, pool, reported, nWrites, nSucc>>

-----------------------------------------------------------------------------
(* Time entries: stop *)

\* the guard left out
already_stopped_never(entry) == FALSE

\* line 143: entry.get("end_time") is not None
already_stopped(entry) == entry.end_time # None

\* stop_timer, lines 140-144: the exception raised, if any
stop_timer_check(entry_id) ==
    LET r == to_object_id(entry_id) IN
    IF r.exc # None THEN r.exc
    ELSE IF find_one(timeentry, Val(r.oid)) = None
    THEN Some(HTTPException(404, "Time entry not found"))
    ELSE IF already_stopped(Val(find_one(timeentry, Val(r.oid))))
    THEN Some(HTTPException(400, "Timer already stopped"))
    ELSE None

\* int(td.total_seconds()) for a timedelta of x ticks: truncation towards zero
IntSeconds(x) ==
    IF x >= 0 THEN x \div TicksPerSec ELSE -((-x) \div TicksPerSec)

\* the operands of the subtraction exchanged
stop_timer_duration_swapped(end_time, start_time) ==
    IntSeconds(start_time - end_time)

\* the elapsed ticks taken for seconds
stop_timer_duration_ticks(end_time, start_time) == end_time - start_time

\* line 147
stop_timer_duration(end_time, start_time) == IntSeconds(end_time - start_time)

\* duration_sec left out of the $set document
stop_timer_set_no_duration(end_time, duration) ==
    [end_time |-> Some(end_time), updated_at |-> Some(end_time)]

\* start_time put in the $set document as well
stop_timer_set_restart(end_time, duration) ==
    [end_time |-> Some(end_time), updated_at |-> Some(end_time),
     duration_sec |-> Some(duration), start_time |-> end_time]

\* line 150: the $set document
stop_timer_set(end_time, duration) ==
    [end_time |-> Some(end_time), updated_at |-> Some(end_time),
     duration_sec |-> Some(duration)]

\* an update that applies only while the document has no end_time
update_one_if_running(coll, oid, fields) ==
    {IF d._id = oid /\ d.end_time = None THEN fields @@ d ELSE d : d \in coll}

\* collection.update_one({"_id": oid}, {"$set": fields})
update_one(coll, oid, fields) ==
    {IF d._id = oid THEN fields @@ d ELSE d : d \in coll}

stop_timer_find(w) ==
    /\ pc[w] = "idle"
    /\ out = None
    /\ \E entry_id \in IdInputs(timeentry) :
        LET payload == [entry_id |-> entry_id] IN
        IF stop_timer_check(entry_id) # None
        THEN Return(w, "stop_timer", payload,
                    Val(stop_timer_check(entry_id)))
        ELSE Goto(w, "stop_timer_now",
                  [arg |-> payload,
                   entry |-> Val(find_one(timeentry, Val(ObjectId(entry_id))))])
    /\ UNCHANGED <<clock, project, task, timeentry, nextOid, pool, reported, nWrites, nSucc>>

stop_timer_now(w) ==
    /\ pc[w] = "stop_timer_now"
    /\ out = None
    /\ Goto(w, "stop_timer_update",
            [arg |-> loc[w].arg, entry |-> loc[w].entry, end_time |-> clock,
             duration |-> stop_timer_duration(clock, loc[w].entry.start_time)])
    /\ UNCHANGED <<clock, project, task, timeentry, nextOid, pool, reported, nWrites, nSucc>>

stop_timer_update(w) ==
    /\ pc[w] = "stop_timer_update"
    /\ out = None
    /\ timeentry' = update_one(timeentry, loc[w].entry._id,
                               stop_timer_set(loc[w].end_time, loc[w].duration))
    /\ nWrites' = [nWrites EXCEPT ![loc[w].entry._id] = @ + 1]
    /\ Goto(w, "stop_timer_reread", loc[w])
    /\ UNCHANGED <<clock, project, task, nextOid, pool, reported, nSucc>>

\* the entry read before the update returned, with no second read
stop_timer_reread_stale(w) ==
    /\ pc[w] = "stop_timer_reread"
    /\ out = None
    /\ Return(w, "stop_timer", loc[w].arg, Ok(Stringify(loc[w].entry)))
    /\ nSucc' = [nSucc EXCEPT ![loc[w].entry._id] = @ + 1]
    /\ UNCHANGED <<clock, project, task, timeentry, nextOid, pool, reported, nWrites>>

\* lines 152-154
stop_timer_reread(w) ==
    /\ pc[w] = "stop_timer_reread"
    /\ out = None
    /\ Return(w, "stop_timer", loc[w].arg,
              Ok(Stringify(Val(find_one(timeentry, loc[w].entry._id)))))
    /\ nSucc' = [nSucc EXCEPT ![loc[w].entry._id] = @ + 1]
    /\ UNCHANGED <<clock, project, task, timeentry, nextOid, pool, reported, nWrites>>

-----------------------------------------------------------------------------
(* Time entries: query and report *)

\* the two filters intersected
list_time_entries_filt_both(task_id, project_id) ==
    IF Truthy(project_id)
    THEN Some({Str(t._id) : t \in find(task, "project_id", Val(project_id))}
              \cap (IF Truthy(task_id) THEN {Val(task_id)}
                    ELSE {Str(t._id) : t \in task}))
    ELSE IF Truthy(task_id) THEN Some({Val(task_id)})
    ELSE None

\* lines 159-165: the filter on task_id (None: no filter)
list_time_entries_filt(task_id, project_id) ==
    IF Truthy(project_id)
    THEN Some({Str(t._id) : t \in find(task, "project_id", Val(project_id))})
    ELSE IF Truthy(task_id) THEN Some({Val(task_id)})
    ELSE None

\* the documents of a collection that a filter on task_id selects
Matching(coll, filt) ==
    IF filt = None THEN coll ELSE {d \in coll : d.task_id \in Val(filt)}

list_time_entries_find(w) ==
    /\ pc[w] = "idle"
    /\ out = None
    /\ \E task_id \in QueryInputs(task), project_id \in QueryInputs(project),
          limit \in Limits :
        Goto(w, "list_time_entries_get",
             [arg |-> [task_id |-> task_id, project_id |-> project_id,
                       limit |-> limit],
              filt |-> list_time_entries_filt(task_id, project_id)])
    /\ UNCHANGED <<clock, project, task, timeentry, nextOid, pool, reported, nWrites, nSucc>>

list_time_entries_get(w) ==
    /\ pc[w] = "list_time_entries_get"
    /\ out = None
    /\ \E docs \in get_documents(Matching(timeentry, loc[w].filt),
                                 loc[w].arg.limit) :
        Return(w, "list_time_entries", loc[w].arg,
               Ok({Stringify(d) : d \in docs}))
    /\ UNCHANGED <<clock, project, task, timeentry, nextOid, pool, reported, nWrites, nSucc>>

RECURSIVE SumDurations(_)
\* lines 176-179: the loop over the cursor
SumDurations(entries) ==
    IF entries = {} THEN 0
    ELSE LET e == CHOOSE x \in entries : TRUE IN
         (IF e.duration_sec # None THEN Val(e.duration_sec) ELSE 0)
           + SumDurations(entries \ {e})

\* the filter on task_id left out
report_task_total_all(task_id) == SumDurations(timeentry)

\* lines 175-180
report_task_total(task_id) == SumDurations(find(timeentry, "task_id", task_id))

report_task(w) ==
    /\ pc[w] = "idle"
    /\ out = None
    /\ \E task_id \in IdInputs(task) :
        Return(w, "report_task", [task_id |-> task_id],
               Ok([task_id |-> task_id,
                   total_seconds |-> report_task_total(task_id)]))
    /\ UNCHANGED <<clock, project, task, timeentry, nextOid, pool, reported, nWrites, nSucc>>

-----------------------------------------------------------------------------
(* The system *)

Next ==
    \/ Tick
    \/ Deliver
    \/ \E w \in pool :
        \/ create_project(w)
        \/ create_task_find(w)
        \/ create_task_insert(w)
        \/ list_tasks(w)
        \/ start_timer_find(w)
        \/ start_timer_now(w)
        \/ start_timer_insert(w)
        \/ stop_timer_find(w)
        \/ stop_timer_now(w)
        \/ stop_timer_update(w)
        \/ stop_timer_reread(w)
        \/ list_time_entries_find(w)
        \/ list_time_entries_get(w)
        \/ report_task(w)

Spec == Init /\ [][Next]_vars

\* report_task, lines 173-180, with the client's log of the totals it was
\* given: the largest total_seconds returned so far for each task_id
report_task_logged(w) ==
    /\ pc[w] = "idle"
    /\ out = None
    /\ \E task_id \in IdInputs(task) :
        LET total == report_task_total(task_id) IN
        /\ Return(w, "report_task", [task_id |-> task_id],
                  Ok([task_id |-> task_id, total_seconds |-> total]))
        /\ reported' = [reported EXCEPT
                          ![task_id] = IF total > @ THEN total ELSE @]
    /\ UNCHANGED <<clock, project, task, timeentry, nextOid, pool, nWrites, nSucc>>

\* the system with the reports logged
NextR ==
    \/ Tick
    \/ Deliver
    \/ \E w \in pool :
        \/ create_project(w)
        \/ create_task_find(w)
        \/ create_task_insert(w)
        \/ list_tasks(w)
        \/ start_timer_find(w)
        \/ start_timer_now(w)
        \/ start_timer_insert(w)
        \/ stop_timer_find(w)
        \/ stop_timer_now(w)
        \/ stop_timer_update(w)
        \/ stop_timer_reread(w)
        \/ list_time_entries_find(w)
        \/ list_time_entries_get(w)
        \/ report_task_logged(w)

SpecR == Init /\ [][NextR]_vars

-----------------------------------------------------------------------------
(* Properties *)

\* the stored time entry with identifier oid (which exists)
Entry(oid) == Val(find_one(timeentry, oid))

Stopped(e) == e.end_time # None

AlreadyStopped == HTTPException(400, "Timer already stopped")

\* the step taken is a request that was answered in the step that took it
AnsweredAtOnce == out = None /\ out' # None /\ pc' = pc

\* the step taken is the first step of a stop request on the entry oid
StopBegins(oid) ==
    \/ \E w \in Workers :
        /\ pc[w] = "idle"
        /\ pc'[w] = "stop_timer_now"
        /\ loc'[w].entry._id = oid
    \/ /\ AnsweredAtOnce
       /\ Val(out').op = "stop_timer"
       /\ ObjectId(Val(out').arg.entry_id) = Some(oid)

\* the step taken is worker w's update_one
StopWrites(w) == pc[w] = "stop_timer_update" /\ pc'[w] = "stop_timer_reread"

\* the step taken is worker w's successful return from stop_timer
StopSucceeds(w) == pc[w] = "stop_timer_reread" /\ pc'[w] = "idle"

\* C1: once a stop call on an entry has returned success, every stop call on
\* the same entry that begins afterwards is answered 400 "Timer already
\* stopped" and leaves the time entries as they were.
C1_SequentialDoubleStop ==
    [][\A oid \in Oids :
        (nSucc[oid] > 0 /\ StopBegins(oid)) =>
            /\ out' # None
            /\ Val(out').resp = AlreadyStopped
            /\ timeentry' = timeentry]_vars

\* a stop call on an entry that an earlier call had stopped was refused
C1_Witness ==
    /\ out # None
    /\ Val(out).op = "stop_timer"
    /\ Val(out).resp = AlreadyStopped
    /\ nSucc[Val(ObjectId(Val(out).arg.entry_id))] > 0

\* C2 as stated: every entry's end_time/duration_sec are written at most once
\* and at most one stop call on it returns success, in every interleaving.
C2_WrittenAtMostOnce ==
    \A oid \in Oids : nWrites[oid] <= 1 /\ nSucc[oid] <= 1

\* C2 as amended: an entry leaves the running state at most once and never
\* returns to it; its end_time/duration_sec are written, and success is
\* returned, only by stop calls that read the entry while it was running
\* (calls that overlap on a running entry may each write and each succeed).
C2_WrittenByCallsThatReadRunning ==
    [][/\ \A w \in Workers :
            (StopWrites(w) \/ StopSucceeds(w)) => ~Stopped(loc[w].entry)
       /\ \A e \in timeentry :
            /\ Stopped(e) => \E f \in timeentry' : f._id = e._id /\ Stopped(f)
            /\ e \notin timeentry' =>
                 \E w \in Workers : StopWrites(w) /\ loc[w].entry._id = e._id
       /\ (out' # None /\ Val(out').op = "stop_timer"
             /\ Val(out').resp.status = 200) =>
            \E w \in Workers : StopSucceeds(w)]_vars

\* two overlapping stop calls have both written the same entry and both
\* returned success
C2_Witness == \E oid \in Oids : nWrites[oid] = 2 /\ nSucc[oid] = 2

\* C3: in every reachable state every stored time entry has end_time and
\* duration_sec both null or both set.
C3_EndAndDurationTogether ==
    \A e \in timeentry : (e.end_time = None) <=> (e.duration_sec = None)

\* a stopped entry that two stop calls have written, next to both fields set
C3_Witness ==
    \E e \in timeentry :
        e.end_time # None /\ e.duration_sec # None /\ nWrites[e._id] = 2

\* C4: every stopped entry has end_time >= start_time and duration_sec equal
\* to end_time - start_time in whole seconds (rounded down), never negative.
C4_DurationIsElapsedSeconds ==
    \A e \in timeentry :
        Stopped(e) =>
            /\ Val(e.end_time) >= e.start_time
            /\ e.duration_sec # None
            /\ Val(e.duration_sec) >= 0
            /\ Val(e.duration_sec) * TicksPerSec <= Val(e.end_time) - e.start_time
            /\ Val(e.end_time) - e.start_time
                 < (Val(e.duration_sec) + 1) * TicksPerSec

\* an entry stopped by two overlapping calls after a time that is no whole
\* number of seconds
C4_Witness ==
    \E e \in timeentry :
        /\ Stopped(e)
        /\ nWrites[e._id] = 2
        /\ (Val(e.end_time) - e.start_time) % TicksPerSec # 0

\* C5 as stated: once a project P, a task T created with an accepted
\* project_id naming P, and an entry started with an accepted task_id naming T
\* and then stopped exist (requests made one after another), the entry is in
\* the result of list_time_entries(project_id = id of P) when the limit
\* allows for all entries.
C5_RoundTrip ==
    (/\ Cardinality(pool) = 1
     /\ out # None
     /\ Val(out).op = "list_time_entries"
     /\ Val(out).arg.task_id = None
     /\ Val(out).arg.limit >= Cardinality(timeentry)) =>
        \A p \in project, t \in task, e \in timeentry :
            (/\ Val(out).arg.project_id = Some(Str(p._id))
             /\ ObjectId(t.project_id) = Some(p._id)
             /\ ObjectId(e.task_id) = Some(t._id)
             /\ Stopped(e)) =>
                Stringify(e) \in Val(Val(out).resp.body)

RECURSIVE SumByOid(_, _)
\* the sum, over the identifiers 1..n, of duration_sec of the stored entry
\* with that identifier, if it has the given task_id and is stopped
SumByOid(n, task_id) ==
    IF n = 0 THEN 0
    ELSE (IF \E e \in timeentry :
                e._id = n /\ e.task_id = task_id /\ e.duration_sec # None
          THEN Val(Entry(n).duration_sec) ELSE 0) + SumByOid(n - 1, task_id)

\* C6: report(task_id) answers 200 with total_seconds the sum of duration_sec
\* over the stored entries whose task_id equals the argument and whose
\* duration_sec is set; 0 when no entry has that task_id.
C6_ReportSumsStoppedEntries ==
    (out # None /\ Val(out).op = "report_task") =>
        LET task_id == Val(out).arg.task_id IN
        /\ Val(out).resp =
             Ok([task_id |-> task_id,
                 total_seconds |-> SumByOid(Len(HexLower), task_id)])
        /\ (\A e \in timeentry : e.task_id # task_id) =>
             Val(Val(out).resp.body).total_seconds = 0

\* a report that counts a stopped entry and leaves out a running entry of the
\* same task_id
C6_Witness ==
    /\ out # None
    /\ Val(out).op = "report_task"
    /\ Val(Val(out).resp.body).total_seconds >= 1
    /\ \E e \in timeentry :
        e.task_id = Val(out).arg.task_id /\ e.duration_sec = None

\* C7: create_task answers 400 to a malformed project_id and 404 to a
\* well-formed one that no project has, and a task is inserted only by a
\* request whose project lookup succeeded.
C7_CreateTaskNeedsProject ==
    [][/\ (out' # None /\ Val(out').op = "create_task") =>
            LET a == Val(out').arg.project_id
                r == Val(out').resp IN
            /\ (ObjectId(a) = None) =>
                 (r = HTTPException(400, "Invalid id") /\ AnsweredAtOnce)
            /\ (ObjectId(a) # None /\ find_one(project, Val(ObjectId(a))) = None)
                 => (r = HTTPException(404, "Project not found")
                       /\ AnsweredAtOnce)
            /\ (r.status # 200) => (task' = task)
       /\ \A w \in Workers :
            (pc[w] = "idle" /\ pc'[w] = "create_task_insert") =>
                /\ ObjectId(loc'[w].arg.project_id) # None
                /\ find_one(project, Val(ObjectId(loc'[w].arg.project_id)))
                     # None
       /\ (task' # task) =>
            \E w \in Workers :
                /\ pc[w] = "create_task_insert"
                /\ pc'[w] = "idle"
                /\ find_one(project, Val(ObjectId(loc[w].arg.project_id)))
                     # None]_vars

\* a create_task naming a well-formed project_id that no project has was
\* answered 404
C7_Witness ==
    /\ out # None
    /\ Val(out).op = "create_task"
    /\ Val(out).resp = HTTPException(404, "Project not found")
    /\ ObjectId(Val(out).arg.project_id) # None
    /\ project # {}

\* C8: start answers 400 to a malformed task_id and 404 to a well-formed one
\* that no task has, and in both cases no time entry is created.
C8_StartNeedsTask ==
    [][/\ (out' # None /\ Val(out').op = "start_timer") =>
            LET a == Val(out').arg.task_id
                r == Val(out').resp IN
            /\ (ObjectId(a) = None) =>
                 (r = HTTPException(400, "Invalid id") /\ AnsweredAtOnce)
            /\ (ObjectId(a) # None /\ find_one(task, Val(ObjectId(a))) = None)
                 => (r = HTTPException(404, "Task not found")
                       /\ AnsweredAtOnce)
            /\ (r.status # 200) => (timeentry' = timeentry)
       /\ \A w \in Workers :
            (pc[w] = "idle" /\ pc'[w] = "start_timer_now") =>
                /\ ObjectId(loc'[w].arg.task_id) # None
                /\ find_one(task, Val(ObjectId(loc'[w].arg.task_id))) # None
                /\ timeentry' = timeentry]_vars

\* a start naming a well-formed task_id that no stored task has was answered
\* 404
C8_Witness ==
    /\ out # None
    /\ Val(out).op = "start_timer"
    /\ Val(out).resp = HTTPException(404, "Task not found")
    /\ ObjectId(Val(out).arg.task_id) # None
    /\ task # {}

\* C9: a start that found its task reads the clock for start_time and then
\* adds exactly one entry: fresh identifier, task_id, user_id and note as
\* given, that start_time, end_time and duration_sec null; the entries there
\* before are unchanged, and a start is refused only for its task_id (400
\* malformed, 404 no such task), never for the entries that exist.
C9_StartAddsOneRunningEntry ==
    [][/\ \A w \in Workers :
            /\ (pc[w] = "start_timer_now" /\ pc'[w] = "start_timer_insert") =>
                 (loc'[w].entry.start_time = clock /\ timeentry' = timeentry)
            /\ (pc[w] = "start_timer_insert" /\ pc'[w] = "idle") =>
                 \E new \in timeentry' :
                    /\ new \notin timeentry
                    /\ timeentry' = timeentry \cup {new}
                    /\ \A d \in timeentry : d._id # new._id
                    /\ \A d \in task : d._id # new._id
                    /\ \A d \in project : d._id # new._id
                    /\ new.task_id = loc[w].arg.task_id
                    /\ new.user_id = loc[w].arg.user_id
                    /\ new.note = loc[w].arg.note
                    /\ new.start_time = loc[w].entry.start_time
                    /\ new.end_time = None
                    /\ new.duration_sec = None
                    /\ out' = Some([op |-> "start_timer", arg |-> loc[w].arg,
                                    resp |-> Ok([id |-> Str(new._id)])])
       /\ (out' # None /\ Val(out').op = "start_timer"
             /\ Val(out').resp.status # 200) =>
            \/ ObjectId(Val(out').arg.task_id) = None
            \/ find_one(task, Val(ObjectId(Val(out').arg.task_id))) = None]_vars

\* a start has succeeded for a task and user that already had a running entry
C9_Witness ==
    /\ out # None
    /\ Val(out).op = "start_timer"
    /\ Val(out).resp.status = 200
    /\ \E e1 \in timeentry, e2 \in timeentry :
        /\ Str(e1._id) = Val(Val(out).resp.body).id
        /\ e2._id # e1._id
        /\ e2.task_id = e1.task_id
        /\ e2.user_id = e1.user_id
        /\ e1.end_time = None
        /\ e2.end_time = None

\* C10: list_time_entries with a project_id selects by the identifiers of the
\* tasks stored with that project_id, whatever task_id is given; with a
\* task_id alone, by that task_id; the response holds the selected entries
\* (all of them when there are no more than the limit).
C10_ProjectFilterOverrides ==
    [][\A w \in Workers :
        /\ (pc[w] = "idle" /\ pc'[w] = "list_time_entries_get") =>
             LET a == loc'[w].arg
                 f == loc'[w].filt IN
             /\ Truthy(a.project_id) =>
                  f = Some({Str(t._id) :
                            t \in {x \in task :
                                     x.project_id = Val(a.project_id)}})
             /\ (~Truthy(a.project_id) /\ Truthy(a.task_id)) =>
                  f = Some({Val(a.task_id)})
             /\ (~Truthy(a.project_id) /\ ~Truthy(a.task_id)) => f = None
        /\ (pc[w] = "list_time_entries_get" /\ pc'[w] = "idle") =>
             LET selected == {e \in timeentry :
                                loc[w].filt = None
                                  \/ e.task_id \in Val(loc[w].filt)} IN
             /\ out' # None
             /\ Val(out').op = "list_time_entries"
             /\ Val(out').arg = loc[w].arg
             /\ Val(out').resp.status = 200
             /\ \E docs \in SUBSET selected :
                  /\ Val(Val(out').resp.body) = {Stringify(d) : d \in docs}
                  /\ Cardinality(selected) <= loc[w].arg.limit =>
                       docs = selected]_vars

\* a listing with both parameters given has returned an entry whose task_id
\* is not the task_id parameter
C10_Witness ==
    /\ out # None
    /\ Val(out).op = "list_time_entries"
    /\ Truthy(Val(out).arg.task_id)
    /\ Truthy(Val(out).arg.project_id)
    /\ \E d \in Val(Val(out).resp.body) :
        d.task_id # Val(Val(out).arg.task_id)

\* C11: list_tasks(project_id) answers 200 with stored tasks whose project_id
\* equals the filter value, as many as the limit allows (all of them when
\* they are no more than the limit), with no check that the project exists:
\* for a project_id that names no project the array is empty.
C11_ListTasksFiltersByProjectId ==
    (out # None /\ Val(out).op = "list_tasks") =>
        LET a == Val(out).arg
            selected == {t \in task :
                           Truthy(a.project_id) =>
                               t.project_id = Val(a.project_id)} IN
        /\ Val(out).resp.status = 200
        /\ \E docs \in SUBSET selected :
            /\ Val(Val(out).resp.body) = {Stringify(d) : d \in docs}
            /\ Cardinality(docs) = Min(a.limit, Cardinality(selected))
        /\ (/\ Truthy(a.project_id)
            /\ \A p \in project : ObjectId(Val(a.project_id)) # Some(p._id))
             => Val(Val(out).resp.body) = {}

\* tasks are stored, and a listing for a project_id that names no project was
\* answered with an empty array
C11_Witness ==
    /\ out # None
    /\ Val(out).op = "list_tasks"
    /\ Truthy(Val(out).arg.project_id)
    /\ \A p \in project : ObjectId(Val(Val(out).arg.project_id)) # Some(p._id)
    /\ Val(out).resp = Ok({})
    /\ task # {}

\* C12: the update of stop is unconditional: every stop call that passed the
\* guard writes its own end_time and duration_sec over whatever the entry
\* holds at that moment and then returns success, so when two calls overlap
\* on a running entry both update, both succeed, and the entry is left with
\* the values of the update applied last.
C12_LastWriteWins ==
    [][\A w \in Workers :
        /\ StopWrites(w) =>
            /\ find_one(timeentry', loc[w].entry._id) # None
            /\ Val(find_one(timeentry', loc[w].entry._id)).end_time
                 = Some(loc[w].end_time)
            /\ Val(find_one(timeentry', loc[w].entry._id)).duration_sec
                 = Some(loc[w].duration)
        /\ StopSucceeds(w) =>
            /\ out' # None
            /\ Val(out').op = "stop_timer"
            /\ Val(out').resp.status = 200]_vars

\* two calls that both read the entry running have both updated it with
\* different end times, the second over the first
C12_Witness ==
    \E w1 \in Workers, w2 \in Workers :
        /\ w1 # w2
        /\ pc[w1] = "stop_timer_reread"
        /\ pc[w2] = "stop_timer_reread"
        /\ loc[w1].entry._id = loc[w2].entry._id
        /\ loc[w1].entry.end_time = None
        /\ loc[w2].entry.end_time = None
        /\ loc[w1].end_time # loc[w2].end_time
        /\ nWrites[loc[w1].entry._id] = 2
        /\ Entry(loc[w1].entry._id).end_time = Some(loc[w2].end_time)

\* C13: every request to create_task, start or stop that is answered with an
\* error (400 malformed identifier, 404 not found, 400 already stopped) is
\* answered before the handler has written anything, and leaves the project,
\* task and time entry collections exactly as they were.
C13_ErrorsChangeNothing ==
    [][(/\ out' # None
        /\ Val(out').op \in {"create_task", "start_timer", "stop_timer"}
        /\ Val(out').resp.status # 200) =>
            /\ Val(out').resp.status \in {400, 404}
            /\ AnsweredAtOnce
            /\ project' = project
            /\ task' = task
            /\ timeentry' = timeentry
            /\ nWrites' = nWrites]_vars

\* a stop naming a well-formed identifier that no stored entry has was
\* answered 404 while entries are stored
C13_Witness ==
    /\ out # None
    /\ Val(out).op = "stop_timer"
    /\ Val(out).resp = HTTPException(404, "Time entry not found")
    /\ timeentry # {}

\* the fields that stop sets
StopFields == {"end_time", "duration_sec", "updated_at"}

\* C14: the update of a successful stop changes end_time, duration_sec and
\* updated_at of the addressed entry and nothing else: its other fields,
\* every other entry, the projects and the tasks stay as they were, and the
\* other steps of stop write nothing; no operation removes or modifies a
\* project or a task.
C14_StopFrame ==
    [][/\ \A w \in Workers :
            /\ StopWrites(w) =>
                LET oid == loc[w].entry._id IN
                /\ project' = project
                /\ task' = task
                /\ {e \in timeentry' : e._id # oid}
                     = {e \in timeentry : e._id # oid}
                /\ find_one(timeentry, oid) # None
                /\ find_one(timeentry', oid) # None
                /\ DOMAIN Val(find_one(timeentry', oid)) = DOMAIN Entry(oid)
                /\ \A f \in DOMAIN Entry(oid) \ StopFields :
                     Val(find_one(timeentry', oid))[f] = Entry(oid)[f]
            /\ (/\ ~StopWrites(w)
                /\ pc'[w] # pc[w]
                /\ \/ pc'[w] = "stop_timer_now"
                   \/ pc[w] \in {"stop_timer_now", "stop_timer_reread"}) =>
                 (project' = project /\ task' = task
                    /\ timeentry' = timeentry)
       /\ (out' # None /\ Val(out').op = "stop_timer") =>
            (project' = project /\ task' = task /\ timeentry' = timeentry)
       /\ project \subseteq project'
       /\ task \subseteq task']_vars

\* a stop has succeeded on one of two stored entries and the other entry is
\* still running
C14_Witness ==
    /\ out # None
    /\ Val(out).op = "stop_timer"
    /\ Val(out).resp.status = 200
    /\ Cardinality(timeentry) = 2
    /\ \E e \in timeentry : e.end_time = None
    /\ \E e \in timeentry : e.end_time # None /\ e.user_id # None

\* C15 as stated: the record returned by a successful stop carries the
\* end_time and duration_sec that this very call computed and wrote, in every
\* interleaving.
C15_ReturnsOwnValues ==
    [][\A w \in Workers :
        StopSucceeds(w) =>
            /\ Val(Val(out').resp.body).end_time = Some(loc[w].end_time)
            /\ Val(Val(out').resp.body).duration_sec
                 = Some(loc[w].duration)]_vars

\* C15 as amended: the record returned by a successful stop is the entry as
\* it is stored when the call reads it again after its update; it is
\* stopped, and it carries the end_time and duration_sec this call wrote
\* when no other call has updated the entry (an overlapping stop that
\* updated the entry in between makes the call return that other call's
\* values).
C15_ReturnsStoredValues ==
    [][\A w \in Workers :
        StopSucceeds(w) =>
            LET oid == loc[w].entry._id
                body == Val(Val(out').resp.body) IN
            /\ Val(out').resp.status = 200
            /\ body = Stringify(Entry(oid))
            /\ body.end_time # None
            /\ body.duration_sec # None
            /\ nWrites[oid] >= 1
            /\ (nWrites[oid] = 1) =>
                 /\ body.end_time = Some(loc[w].end_time)
                 /\ body.duration_sec = Some(loc[w].duration)]_vars

\* a stop has returned the values of the only update made so far while an
\* overlapping stop on the same entry is about to write another end_time
C15_Witness ==
    /\ out # None
    /\ Val(out).op = "stop_timer"
    /\ Val(out).resp.status = 200
    /\ \E w \in Workers :
        /\ pc[w] = "stop_timer_update"
        /\ Str(loc[w].entry._id) = Val(Val(out).resp.body).id
        /\ nWrites[loc[w].entry._id] = 1
        /\ Some(loc[w].end_time) # Val(Val(out).resp.body).end_time

\* C16: in every reachable state, under any interleaving, the project_id of
\* every stored task identifies a stored project and the task_id of every
\* stored time entry identifies a stored task.
C16_ReferentialIntegrity ==
    /\ \A t \in task :
        /\ ObjectId(t.project_id) # None
        /\ find_one(project, Val(ObjectId(t.project_id))) # None
    /\ \A e \in timeentry :
        /\ ObjectId(e.task_id) # None
        /\ find_one(task, Val(ObjectId(e.task_id))) # None

\* with two workers, an entry, its task and the task's project are stored
\* while a stop of the entry is under way
C16_Witness ==
    /\ pool = Workers
    /\ \E e \in timeentry, t \in task, p \in project, w \in Workers :
        /\ ObjectId(e.task_id) = Some(t._id)
        /\ ObjectId(t.project_id) = Some(p._id)
        /\ pc[w] = "stop_timer_update"
        /\ loc[w].entry._id = e._id

\* C17 as stated: for every task_id, a report never returns a total_seconds
\* smaller than an earlier report for the same task_id returned, in any
\* behaviour, concurrent start and stop requests included.
C17_ReportNeverDecreases ==
    [][(out' # None /\ Val(out').op = "report_task") =>
        Val(Val(out').resp.body).total_seconds
            >= reported[Val(out').arg.task_id]]_vars

\* C17 as amended: the total of a task_id decreases only in the step in which
\* a stop call updates an entry that another stop call has already stopped
\* (overlapping stops, the later update carrying the smaller duration_sec);
\* a report returns no less than every earlier report for the same task_id
\* as long as no entry has been updated by more than one stop call.
C17_ReportDecreasesOnlyByOverwrite ==
    [][/\ \A k \in {e.task_id : e \in timeentry} :
            (timeentry' # timeentry
               /\ report_task_total(k)' < report_task_total(k)) =>
                \E w \in Workers :
                    /\ StopWrites(w)
                    /\ Stopped(Entry(loc[w].entry._id))
                    /\ nWrites[loc[w].entry._id] >= 1
       /\ (/\ out' # None
           /\ Val(out').op = "report_task"
           /\ \A oid \in Oids : nWrites[oid] <= 1) =>
            Val(Val(out').resp.body).total_seconds
                >= reported[Val(out').arg.task_id]]_vars

\* a report has returned a positive total equal to the largest reported so
\* far, after one stop call updated the entry and while an overlapping stop
\* call is about to update it again
C17_Witness ==
    /\ out # None
    /\ Val(out).op = "report_task"
    /\ Val(Val(out).resp.body).total_seconds >= 1
    /\ reported[Val(out).arg.task_id]
         = Val(Val(out).resp.body).total_seconds
    /\ \A oid \in Oids : nWrites[oid] <= 1
    /\ \E w \in Workers :
        /\ pc[w] = "stop_timer_update"
        /\ loc[w].entry.task_id = Val(out).arg.task_id
        /\ nWrites[loc[w].entry._id] = 1

\* C18: stopped is absorbing: an entry whose end_time is set is still stored
\* after every step, with end_time and duration_sec set; no operation and no
\* interleaving returns it to running.
C18_StoppedIsAbsorbing ==
    [][\A e \in timeentry :
        Stopped(e) =>
            \E f \in timeentry' :
                /\ f._id = e._id
                /\ f.end_time # None
                /\ f.duration_sec # None]_vars

\* an entry that two overlapping stop calls have updated is stopped, both
\* calls have returned and time has passed since its end_time
C18_Witness ==
    \E e \in timeentry :
        /\ Stopped(e)
        /\ nWrites[e._id] = 2
        /\ nSucc[e._id] = 2
        /\ clock > Val(e.end_time)
        /\ \A w \in Workers : pc[w] = "idle"

=============================================================================
